---- MODULE Spec2Model ----
(***************************************************************************)
(* Visual-regression store of the appium test framework:                   *)
(* core/utils/screenshot_utils.py (ScreenshotUtils) and the pytest harness *)
(* of tests/com.monoxer that drives it.                                    *)
(*                                                                         *)
(* Strings are modelled as sequences of tokens; the separator "_" and the  *)
(* extension ".png" are tokens of their own, so that split/join/replace    *)
(* and the f-string formatting are computed as the code computes them.     *)
(* No token is a proper prefix of another one, so comparing two token      *)
(* sequences token by token agrees with Python's character-wise order.     *)
(***************************************************************************)
EXTENDS Integers, Sequences, FiniteSets, TLC

VARIABLES baseExists, base, curExists, cur, clock, ret, phase, runFailed

vars == <<baseExists, base, curExists, cur, clock, ret, phase, runFailed>>

(***************************************************************************)
(* Bounds                                                                  *)
(***************************************************************************)
\* index of the last instant of the wall clock that is explored
MaxClock == 1
\* most files the cur directory holds
MaxFiles == 2

(***************************************************************************)
(* Strings                                                                 *)
(***************************************************************************)
\* the tokens in ascending order of Python's string comparison
TokenOrder ==
    << ".png", "01", "02", "04", "120000", "120001",
       "20250101", "20250102", "20250103",
       ": ", "Error comparing ", "Size mismatch: ", "_",
       "cannot identify image file", "code", "failed", "failure",
       "initial", "invitation", "opened", "screenshot", "sidebar" >>

TokenRank(t) == CHOOSE i \in 1..Len(TokenOrder) : TokenOrder[i] = t

\* a < b for Python strings
RECURSIVE StrLess(_, _)
StrLess(a, b) ==
    IF a = <<>> THEN b # <<>>
    ELSE IF b = <<>> THEN FALSE
    ELSE IF Head(a) = Head(b) THEN StrLess(Tail(a), Tail(b))
    ELSE TokenRank(Head(a)) < TokenRank(Head(b))

\* s.split(sep): the parts of s from position start on, scanning from i
RECURSIVE SplitFrom(_, _, _, _)
SplitFrom(s, sep, start, i) ==
    IF i > Len(s) THEN << SubSeq(s, start, Len(s)) >>
    ELSE IF s[i] = sep
         THEN << SubSeq(s, start, i - 1) >> \o SplitFrom(s, sep, i + 1, i + 1)
         ELSE SplitFrom(s, sep, start, i + 1)

Split(s, sep) == SplitFrom(s, sep, 1, 1)

\* sep.join(parts)
RECURSIVE Join(_, _)
Join(parts, sep) ==
    IF parts = <<>> THEN <<>>
    ELSE IF Len(parts) = 1 THEN parts[1]
    ELSE parts[1] \o << sep >> \o Join(Tail(parts), sep)

\* s.replace(tok, '')
Replace(s, tok) == SelectSeq(s, LAMBDA t : t # tok)

\* s.endswith(tok)
EndsWith(s, tok) == s # <<>> /\ s[Len(s)] = tok

\* sorted(S) for a set S of strings
RECURSIVE Sorted(_)
Sorted(S) ==
    IF S = {} THEN <<>>
    ELSE LET m == CHOOSE x \in S : \A y \in S \ {x} : StrLess(x, y)
         IN  << m >> \o Sorted(S \ {m})

(***************************************************************************)
(* Wall clock and file names                                               *)
(***************************************************************************)
\* the instants of the wall clock, in order, as (%Y%m%d, %H%M%S): two seconds
\* of one day, then the same seconds of later days
Calendar ==
    << << "20250101", "120000" >>, << "20250101", "120001" >>,
       << "20250102", "120000" >>, << "20250102", "120001" >>,
       << "20250103", "120000" >>, << "20250103", "120001" >> >>

\* datetime.now().strftime("%Y%m%d_%H%M%S")
strftime(c) == << Calendar[c + 1][1], "_", Calendar[c + 1][2] >>

\* steps of a test method: (name, step_num) as test_invitation_code_feature
\* passes them to save_screenshot
Steps ==
    { [step_num |-> << "01" >>, name |-> << "invitation", "_", "initial" >>],
      [step_num |-> << "02" >>,
       name |-> << "invitation", "_", "sidebar", "_", "opened" >>] }

\* f"{now}_{step_num}_{name}.png"
screenshot_name(now, step_num, name) ==
    now \o << "_" >> \o step_num \o << "_" >> \o name \o << ".png" >>

(***************************************************************************)
(* Images                                                                  *)
(***************************************************************************)
\* a decodable image of height 1: size, mode and one tuple of bands per pixel
Img(mode, px) == [ok |-> TRUE, size |-> << Len(px), 1 >>, mode |-> mode, px |-> px]

\* the file contents of the model, by name; "empty" is a file without a
\* readable image in it (an empty or truncated file)
Undecodable == "empty"

\* what the device shows when a screenshot is taken
DriverImages == { "A", "B" }

\* Image.open(path) on a file of the given content
ImageOpen(content) ==
    IF content = "A" THEN Img("RGB", << << 0, 0, 0 >> >>)
    ELSE IF content = "B" THEN Img("RGB", << << 255, 0, 0 >> >>)
    ELSE IF content = "wide" THEN Img("RGB", << << 0, 0, 0 >>, << 0, 0, 0 >> >>)
    ELSE IF content = "grey" THEN Img("L", << << 0 >> >>)
    ELSE [ok |-> FALSE, size |-> << 0, 0 >>, mode |-> "", px |-> <<>>]

\* Image.convert between "RGB" and "L" (ITU-R 601-2 luma)
Convert(img, mode) ==
    IF img.mode = mode THEN img
    ELSE IF mode = "L"
    THEN [img EXCEPT !.mode = "L",
              !.px = [i \in 1..Len(img.px) |->
                        << (img.px[i][1] * 19595 + img.px[i][2] * 38470
                            + img.px[i][3] * 7471 + 32768) \div 65536 >>]]
    ELSE [img EXCEPT !.mode = "RGB",
              !.px = [i \in 1..Len(img.px) |->
                        << img.px[i][1], img.px[i][1], img.px[i][1] >>]]

Abs(x) == IF x < 0 THEN -x ELSE x

\* ImageChops.difference(a, b): absolute difference per band
Difference(a, b) ==
    [a EXCEPT !.px = [i \in 1..Len(a.px) |->
                        [k \in 1..Len(a.px[i]) |-> Abs(a.px[i][k] - b.px[i][k])]]]

\* Image.getbbox(): bounding box of the non-zero region, None (<<>>) if none
GetBBox(img) ==
    LET nz == { i \in 1..Len(img.px) : \E k \in 1..Len(img.px[i]) : img.px[i][k] # 0 }
    IN  IF nz = {} THEN <<>>
        ELSE << (CHOOSE i \in nz : \A j \in nz : i <= j) - 1, 0,
                (CHOOSE i \in nz : \A j \in nz : i >= j), 1 >>

(***************************************************************************)
(* Directories: a directory is a set of files [name, img]; names are unique *)
(***************************************************************************)
\* os.listdir(d)
listdir(d) == { x.name : x \in d }

\* the content of the file called n in directory d
ImageAt(d, n) == (CHOOSE x \in d : x.name = n).img

\* writing files into a directory replaces the files of the same name
WriteInto(d, files) == { x \in d : x.name \notin listdir(files) } \cup files

\* (the test of emptiness inverted)
HasFiles_inverted(exists, d) == exists /\ listdir(d) = {}

\* os.path.exists(d) and os.listdir(d)
HasFiles(exists, d) == exists /\ listdir(d) # {}

(***************************************************************************)
(* ScreenshotUtils.compare_screenshots                                     *)
(***************************************************************************)
None == <<>>

extract_step_info(filename) ==
    IF ~EndsWith(filename, ".png") THEN None
    ELSE LET parts == Split(filename, "_")
         IN  IF Len(parts) >= 3
             THEN LET step_num == parts[2]
                      name == Replace(Join(SubSeq(parts, 3, Len(parts)), "_"), ".png")
                  IN  step_num \o << "_" >> \o name \o << ".png" >>
             ELSE None

\* the keys of the dict built from the file names of one directory
StepKeys(files) == { extract_step_info(f) : f \in files } \ { None }

\* the dicts the loop "for filename in <set>: d[step_info] = filename" can
\* build: a set is iterated in no specified order, so for a key that several
\* files share any one of them may be the last one written
RECURSIVE StepFileMapsOver(_, _)
StepFileMapsOver(keys, infos) ==
    IF keys = {} THEN { [k \in {} |-> k] }
    ELSE LET key == CHOOSE k \in keys : TRUE
         IN  { (key :> p[2]) @@ m :
                  p \in { q \in infos : q[1] = key },
                  m \in StepFileMapsOver(keys \ { key }, infos) }

StepFileMaps(files) ==
    LET infos == { << extract_step_info(f), f >> : f \in files }
    IN  StepFileMapsOver({ p[1] : p \in infos } \ { None }, infos)

\* the verdict of the loop body for one pair of files
CompareImages(base_content, cur_content) ==
    LET base_img == ImageOpen(base_content)
        cur_img == ImageOpen(cur_content)
    IN
    IF ~base_img.ok \/ ~cur_img.ok THEN "error"
    ELSE IF base_img.size # cur_img.size THEN "size"
    ELSE IF GetBBox(Difference(Convert(base_img, cur_img.mode), cur_img)) = <<>>
         THEN "identical"
         ELSE "different"

\* (every entry written as the entry of a different pair)
DifferenceEntry_plain(verdict, step_info) == step_info

\* the entry appended to the differences list
DifferenceEntry(verdict, step_info) ==
    IF verdict = "size" THEN << "Size mismatch: " >> \o step_info
    ELSE IF verdict = "error"
         THEN << "Error comparing " >> \o step_info
                 \o << ": ", "cannot identify image file" >>
         ELSE step_info

NotComparable == [ok |-> FALSE, identical |-> <<>>, differences |-> <<>>]

\* (the loop left at the first pair that is not compared pixel by pixel)
RECURSIVE CompareLoop_aborting(_, _, _, _, _, _, _)
CompareLoop_aborting(steps, b, c, base_step_files, cur_step_files, identical, differences) ==
    IF steps = <<>>
    THEN [ok |-> differences = <<>>, identical |-> identical,
          differences |-> differences]
    ELSE LET step_info == Head(steps)
             verdict == CompareImages(ImageAt(b, base_step_files[step_info]),
                                      ImageAt(c, cur_step_files[step_info]))
         IN  IF verdict = "identical"
             THEN CompareLoop_aborting(Tail(steps), b, c, base_step_files,
                                       cur_step_files,
                                       Append(identical, step_info), differences)
             ELSE IF verdict = "different"
             THEN CompareLoop_aborting(Tail(steps), b, c, base_step_files,
                                       cur_step_files, identical,
                                       Append(differences, step_info))
             ELSE [ok |-> FALSE, identical |-> identical,
                   differences |-> Append(differences,
                                          DifferenceEntry(verdict, step_info))]

\* the loop over sorted(common_steps)
RECURSIVE CompareLoop(_, _, _, _, _, _, _)
CompareLoop(steps, b, c, base_step_files, cur_step_files, identical, differences) ==
    IF steps = <<>>
    THEN [ok |-> differences = <<>>, identical |-> identical,
          differences |-> differences]
    ELSE LET step_info == Head(steps)
             verdict == CompareImages(ImageAt(b, base_step_files[step_info]),
                                      ImageAt(c, cur_step_files[step_info]))
         IN  IF verdict = "identical"
             THEN CompareLoop(Tail(steps), b, c, base_step_files, cur_step_files,
                              Append(identical, step_info), differences)
             ELSE CompareLoop(Tail(steps), b, c, base_step_files, cur_step_files,
                              identical,
                              Append(differences, DifferenceEntry(verdict, step_info)))

compare_screenshots(bx, b, cx, c, base_step_files, cur_step_files) ==
    IF ~bx THEN NotComparable
    ELSE IF ~cx THEN NotComparable
    ELSE LET common_steps == (DOMAIN base_step_files) \cap (DOMAIN cur_step_files)
         IN  IF common_steps = {} THEN NotComparable
             ELSE CompareLoop(Sorted(common_steps), b, c,
                              base_step_files, cur_step_files, <<>>, <<>>)

(***************************************************************************)
(* ScreenshotUtils: the operations that write                              *)
(***************************************************************************)
\* save_screenshot: the cur directory after the driver wrote the file
save_screenshot(c, now, step, img) ==
    WriteInto(c, { [name |-> screenshot_name(strftime(now), step.step_num, step.name),
                    img |-> img] })

\* (the files left in place)
clear_screenshot_directory_keeping(cx, c) ==
    [ok |-> TRUE, exists |-> TRUE, files |-> c]

\* clear_screenshot_directory: rmtree of an existing directory, makedirs of
\* a missing one
clear_screenshot_directory(cx, c) ==
    IF cx THEN [ok |-> TRUE, exists |-> FALSE, files |-> {}]
          ELSE [ok |-> TRUE, exists |-> TRUE, files |-> {}]

\* clear_base_screenshots: rmtree of an existing directory
clear_base_screenshots(bx, b) ==
    IF bx THEN [ok |-> TRUE, exists |-> FALSE, files |-> {}]
          ELSE [ok |-> TRUE, exists |-> bx, files |-> b]

\* what the copy loop of set_base_screenshots can meet: every file copied
AllCopied(c) == [done |-> c, failed |-> {}, partial |-> FALSE]

\* or shutil.copy2 raising at one file after the files of "done" were copied
\* (listdir gives the files in no specified order; the file copy2 raised at
\* is either not created or left truncated)
CopyFailures(c) ==
    { [done |-> d, failed |-> {f}, partial |-> p] :
         d \in SUBSET c, f \in c, p \in BOOLEAN }

CopyFailuresOf(c) == { io \in CopyFailures(c) : io.done \cap io.failed = {} }

\* the call reaches its copy loop
ReachesCopy(bx, b, cx, c) == ~HasFiles(bx, b) /\ cx /\ listdir(c) # {}

\* (every copy left truncated)
CopiedFiles_truncating(io) ==
    { [name |-> f.name, img |-> Undecodable] : f \in io.done \cup io.failed }

CopiedFiles(io) ==
    io.done \cup (IF io.partial
                  THEN { [name |-> f.name, img |-> Undecodable] : f \in io.failed }
                  ELSE {})

\* (the check of the base directory left out)
set_base_screenshots_unguarded(bx, b, cx, c, io) ==
    IF ~cx THEN [ok |-> FALSE, exists |-> bx, files |-> b]
    ELSE IF listdir(c) = {} THEN [ok |-> FALSE, exists |-> bx, files |-> b]
    ELSE [ok |-> io.failed = {}, exists |-> TRUE,
          files |-> WriteInto(b, CopiedFiles(io))]

set_base_screenshots(bx, b, cx, c, io) ==
    IF HasFiles(bx, b) THEN [ok |-> FALSE, exists |-> bx, files |-> b]
    ELSE IF ~cx THEN [ok |-> FALSE, exists |-> bx, files |-> b]
    ELSE IF listdir(c) = {} THEN [ok |-> FALSE, exists |-> bx, files |-> b]
    ELSE [ok |-> io.failed = {}, exists |-> TRUE,
          files |-> WriteInto(b, CopiedFiles(io))]

\* (the two checks left out)
auto_set_base_if_successful_ungated(bx, b, cx, c, io) ==
    set_base_screenshots_unguarded(bx, b, cx, c, io)

auto_set_base_if_successful(bx, b, cx, c, io) ==
    IF HasFiles(bx, b) THEN [ok |-> FALSE, exists |-> bx, files |-> b]
    ELSE IF ~cx \/ listdir(c) = {} THEN [ok |-> FALSE, exists |-> bx, files |-> b]
    ELSE set_base_screenshots(bx, b, cx, c, io)

(***************************************************************************)
(* State                                                                   *)
(***************************************************************************)
\* the last call of a ScreenshotUtils operation and what it returned
\* (again: the call before it was a call of the same operation)
Ret(op, ok, raised, identical, differences) ==
    [op |-> op, again |-> (ret.op = op), ok |-> ok, raised |-> raised,
     identical |-> identical, differences |-> differences]

Init ==
    /\ baseExists = FALSE /\ base = {}
    /\ curExists = FALSE /\ cur = {}
    /\ clock = 0
    /\ ret = [op |-> "none", again |-> FALSE, ok |-> FALSE, raised |-> FALSE,
              identical |-> <<>>, differences |-> <<>>]
    /\ phase = "idle"
    /\ runFailed = FALSE

\* a second of wall-clock time passes
Tick ==
    /\ clock < MaxClock
    /\ clock' = clock + 1
    /\ UNCHANGED << baseExists, base, curExists, cur, ret, phase, runFailed >>

SaveStep(step, img) ==
    /\ Cardinality(save_screenshot(cur, clock, step, img)) <= MaxFiles
    /\ curExists' = TRUE
    /\ cur' = save_screenshot(cur, clock, step, img)
    /\ ret' = Ret("save_screenshot", TRUE, FALSE, <<>>, <<>>)
    /\ UNCHANGED << baseExists, base, clock >>

\* save_screenshot when driver.take_screenshot raises: the directory was
\* made, no file is written, the exception is logged and raised again
SaveRaises ==
    /\ curExists' = TRUE
    /\ ret' = Ret("save_screenshot", FALSE, TRUE, <<>>, <<>>)
    /\ UNCHANGED << baseExists, base, cur, clock >>

SaveScreenshot ==
    /\ \E step \in Steps, img \in DriverImages : SaveStep(step, img)
    /\ UNCHANGED << phase, runFailed >>

SaveScreenshotRaises == SaveRaises /\ UNCHANGED << phase, runFailed >>

ClearCur ==
    LET r == clear_screenshot_directory(curExists, cur)
    IN  /\ curExists' = r.exists
        /\ cur' = r.files
        /\ ret' = Ret("clear_screenshot_directory", r.ok, FALSE, <<>>, <<>>)
        /\ UNCHANGED << baseExists, base, clock >>

ClearScreenshotDirectory == ClearCur /\ UNCHANGED << phase, runFailed >>

Compare ==
    \E base_step_files \in StepFileMaps(listdir(base)),
       cur_step_files \in StepFileMaps(listdir(cur)) :
        LET r == compare_screenshots(baseExists, base, curExists, cur,
                                     base_step_files, cur_step_files)
        IN  ret' = Ret("compare_screenshots", r.ok, FALSE, r.identical, r.differences)

CompareScreenshots ==
    /\ Compare
    /\ UNCHANGED << baseExists, base, curExists, cur, clock, phase, runFailed >>

SetBase(io) ==
    LET r == set_base_screenshots(baseExists, base, curExists, cur, io)
    IN  /\ baseExists' = r.exists
        /\ base' = r.files
        /\ ret' = Ret("set_base_screenshots", r.ok, FALSE, <<>>, <<>>)

SetBaseScreenshots ==
    /\ SetBase(AllCopied(cur))
    /\ UNCHANGED << curExists, cur, clock, phase, runFailed >>

\* set_base_screenshots when a copy raises
SetBaseScreenshotsCopyFails ==
    /\ ReachesCopy(baseExists, base, curExists, cur)
    /\ \E io \in CopyFailuresOf(cur) : SetBase(io)
    /\ UNCHANGED << curExists, cur, clock, phase, runFailed >>

ClearBaseScreenshots ==
    /\ LET r == clear_base_screenshots(baseExists, base)
       IN  /\ baseExists' = r.exists
           /\ base' = r.files
           /\ ret' = Ret("clear_base_screenshots", r.ok, FALSE, <<>>, <<>>)
    /\ UNCHANGED << curExists, cur, clock, phase, runFailed >>

AutoSet(io) ==
    LET r == auto_set_base_if_successful(baseExists, base, curExists, cur, io)
    IN  /\ baseExists' = r.exists
        /\ base' = r.files
        /\ ret' = Ret("auto_set_base_if_successful", r.ok, FALSE, <<>>, <<>>)

AutoSetBaseIfSuccessful ==
    /\ AutoSet(AllCopied(cur))
    /\ UNCHANGED << curExists, cur, clock, phase, runFailed >>

\* auto_set_base_if_successful when a copy raises
AutoSetBaseCopyFails ==
    /\ ReachesCopy(baseExists, base, curExists, cur)
    /\ \E io \in CopyFailuresOf(cur) : AutoSet(io)
    /\ UNCHANGED << curExists, cur, clock, phase, runFailed >>

\* the operations as the management script and a test call them, in any
\* order, on a file system and a driver that do not fail
Next ==
    \/ Tick
    \/ SaveScreenshot
    \/ ClearScreenshotDirectory
    \/ CompareScreenshots
    \/ SetBaseScreenshots
    \/ ClearBaseScreenshots
    \/ AutoSetBaseIfSuccessful

Spec == Init /\ [][Next]_vars

\* the same operations when the driver and the copies may fail
NextIO ==
    \/ Next
    \/ SaveScreenshotRaises
    \/ SetBaseScreenshotsCopyFails
    \/ AutoSetBaseCopyFails

SpecIO == Init /\ [][NextIO]_vars

(***************************************************************************)
(* The comparator on stored directories: compare_screenshots as the        *)
(* management script calls it on what earlier sessions left on disk        *)
(***************************************************************************)
\* most files of a stored directory
MaxStored == 2

\* contents of stored files: screenshots of the two screens, a screenshot
\* of another width, and a file that holds no image
StoredImages == DriverImages \cup { "wide", Undecodable }

\* names of stored files: captures of the steps at the first instant, and a
\* capture of one of them at the same time of the next day
StoredNames ==
    { screenshot_name(strftime(0), step.step_num, step.name) : step \in Steps }
    \cup { screenshot_name(strftime(2), step.step_num, step.name) :
              step \in { x \in Steps : x.step_num = << "01" >> } }

StoredDirs ==
    { { [name |-> n, img |-> content[n]] : n \in names } :
        names \in { N \in SUBSET StoredNames : Cardinality(N) <= MaxStored },
        content \in [StoredNames -> StoredImages] }

InitStored ==
    /\ base \in StoredDirs /\ cur \in StoredDirs
    /\ baseExists \in { x \in BOOLEAN : base # {} => x }
    /\ curExists \in { x \in BOOLEAN : cur # {} => x }
    /\ clock = 0
    /\ ret = [op |-> "none", again |-> FALSE, ok |-> FALSE, raised |-> FALSE,
              identical |-> <<>>, differences |-> <<>>]
    /\ phase = "idle"
    /\ runFailed = FALSE

\* manage_screenshots.py --compare
NextCompare == CompareScreenshots

SpecCompare == InitStored /\ [][NextCompare]_vars

(***************************************************************************)
(* Directories that also hold files save_screenshot did not name: what     *)
(* os.listdir returns is whatever is on disk                               *)
(***************************************************************************)
\* a file of the desktop, a .png of two fields, and a .png with a time
\* stamp and a step label but no name
ForeignNames ==
    { << ".DS_Store" >>,
      << "screenshot", "_", "01", ".png" >>,
      strftime(0) \o << "_", "01", ".png" >> }

ListedNames ==
    ForeignNames
    \cup { screenshot_name(strftime(0), step.step_num, step.name) :
              step \in { x \in Steps : x.step_num = << "01" >> } }

ListedDirs ==
    { { [name |-> n, img |-> content[n]] : n \in names } :
        names \in { N \in SUBSET ListedNames : Cardinality(N) <= MaxStored },
        content \in [ListedNames -> DriverImages] }

InitListed ==
    /\ base \in ListedDirs /\ cur \in ListedDirs
    /\ baseExists \in { x \in BOOLEAN : base # {} => x }
    /\ curExists \in { x \in BOOLEAN : cur # {} => x }
    /\ clock = 0
    /\ ret = [op |-> "none", again |-> FALSE, ok |-> FALSE, raised |-> FALSE,
              identical |-> <<>>, differences |-> <<>>]
    /\ phase = "idle"
    /\ runFailed = FALSE

\* teardown_method on such directories: the comparison, then the promotion
NextListed ==
    \/ CompareScreenshots
    \/ AutoSetBaseIfSuccessful

SpecListed == InitListed /\ [][NextListed]_vars

(***************************************************************************)
(* The pytest harness of tests/com.monoxer: a session fixture, test methods *)
(* that take screenshots, and teardown_method after every test method      *)
(***************************************************************************)
\* the screenshot a test method takes in its except block before it raises
\* the failure again
FailedStep ==
    [step_num |-> << "04" >>,
     name |-> << "invitation", "_", "code", "_", "failed" >>]

\* setup_screenshot_management: the session fixture clears cur once
SessionStart ==
    /\ phase = "idle"
    /\ ClearCur
    /\ phase' = "session"
    /\ runFailed' = FALSE

\* setup_method: logs only
TestStart ==
    /\ phase = "session"
    /\ phase' = "test"
    /\ UNCHANGED << baseExists, base, curExists, cur, clock, ret, runFailed >>

\* a step of a test method
TestSave ==
    /\ phase = "test"
    /\ \E step \in Steps, img \in DriverImages : SaveStep(step, img)
    /\ UNCHANGED << phase, runFailed >>

\* the test method returns
TestPass ==
    /\ phase = "test"
    /\ phase' = "teardown"
    /\ UNCHANGED << baseExists, base, curExists, cur, clock, ret, runFailed >>

\* the test method fails: the except block saves the failure screenshot and
\* raises again
TestFail ==
    /\ phase = "test"
    /\ \E img \in DriverImages : SaveStep(FailedStep, img)
    /\ phase' = "teardown"
    /\ runFailed' = TRUE

\* teardown_method: compare_screenshots, whose result is dropped, then
\* auto_set_base_if_successful
Teardown ==
    /\ phase = "teardown"
    /\ AutoSet(AllCopied(cur))
    /\ phase' = "session"
    /\ UNCHANGED << curExists, cur, clock, runFailed >>

SessionEnd ==
    /\ phase = "session"
    /\ phase' = "idle"
    /\ UNCHANGED << baseExists, base, curExists, cur, clock, ret, runFailed >>

\* the operator clears the baseline with the management script between runs
OperatorClearsBase ==
    /\ phase = "idle"
    /\ ClearBaseScreenshots

NextHarness ==
    \/ Tick
    \/ SessionStart
    \/ TestStart
    \/ TestSave
    \/ TestPass
    \/ TestFail
    \/ Teardown
    \/ SessionEnd
    \/ OperatorClearsBase

SpecHarness == Init /\ [][NextHarness]_vars

\* the suite of tests/com.ss.android.ugc.trill has the same test class
\* hooks and no conftest.py: no fixture runs when its session starts
TikTokSessionStart ==
    /\ phase = "idle"
    /\ phase' = "session"
    /\ runFailed' = FALSE
    /\ UNCHANGED << baseExists, base, curExists, cur, clock, ret >>

NextTikTokHarness ==
    \/ Tick
    \/ TikTokSessionStart
    \/ TestStart
    \/ TestSave
    \/ TestPass
    \/ TestFail
    \/ Teardown
    \/ SessionEnd
    \/ OperatorClearsBase

SpecTikTokHarness == Init /\ [][NextTikTokHarness]_vars

(***************************************************************************)
(* AllureUtils.attach_screenshot while a suite of another subject runs     *)
(***************************************************************************)
\* in this specification base and cur are the directories of com.monoxer,
\* phase = "trill" while a session of tests/com.ss.android.ugc.trill runs,
\* and the operations on com.monoxer are called between such sessions

\* the names a test passes to attach_screenshot: the default, and the one
\* attach_screenshot_on_failure builds
AttachNames == { << "Screenshot" >>, << "Failure", " ", "Screenshot" >> }

\* name.lower()
Lower(s) ==
    [i \in 1..Len(s) |->
        CASE s[i] = "Screenshot" -> "screenshot"
          [] s[i] = "Failure" -> "failure"
          [] OTHER -> s[i]]

\* name.replace(" ", "_")
ReplaceSpaces(s) == [i \in 1..Len(s) |-> IF s[i] = " " THEN "_" ELSE s[i]]

\* the arguments attach_screenshot passes to save_screenshot after the
\* subject "com.monoxer": name.lower().replace(" ", "_") and
\* datetime.now().strftime("%H%M%S")
AttachStep(name, c) ==
    [step_num |-> << Calendar[c + 1][2] >>, name |-> ReplaceSpaces(Lower(name))]

\* attach_screenshot: save_screenshot into the cur directory of
\* com.monoxer, whichever suite calls it; an exception is logged, not raised
attach_screenshot(c, now, name, img) == save_screenshot(c, now, AttachStep(name, now), img)

TrillSessionStart ==
    /\ phase = "idle"
    /\ phase' = "trill"
    /\ UNCHANGED << baseExists, base, curExists, cur, clock, ret, runFailed >>

\* a test of the running suite captures a screenshot for the report
TrillAttachScreenshot ==
    /\ phase = "trill"
    /\ \E name \in AttachNames, img \in DriverImages :
          /\ Cardinality(attach_screenshot(cur, clock, name, img)) <= MaxFiles
          /\ curExists' = TRUE
          /\ cur' = attach_screenshot(cur, clock, name, img)
    /\ ret' = Ret("attach_screenshot", TRUE, FALSE, <<>>, <<>>)
    /\ UNCHANGED << baseExists, base, clock, phase, runFailed >>

\* the driver raises in attach_screenshot: the directory was made, the
\* exception is swallowed
TrillAttachScreenshotRaises ==
    /\ phase = "trill"
    /\ curExists' = TRUE
    /\ ret' = Ret("attach_screenshot", FALSE, FALSE, <<>>, <<>>)
    /\ UNCHANGED << baseExists, base, cur, clock, phase, runFailed >>

TrillSessionEnd ==
    /\ phase = "trill"
    /\ phase' = "idle"
    /\ UNCHANGED << baseExists, base, curExists, cur, clock, ret, runFailed >>

NextSubjects ==
    \/ Tick
    \/ TrillSessionStart
    \/ TrillAttachScreenshot
    \/ TrillAttachScreenshotRaises
    \/ TrillSessionEnd
    \/ phase = "idle" /\ SaveScreenshot
    \/ phase = "idle" /\ SetBaseScreenshots

SpecSubjects == Init /\ [][NextSubjects]_vars

(***************************************************************************)
(* Two calls of set_base_screenshots on one subject, statement by statement *)
(***************************************************************************)
\* in this specification phase holds, for each of the two calls, the
\* statement it is at (pc), the list it got from os.listdir(cur_dir)
\* (cur_files) and the names it has copied so far (copied)
Callers == { 1, 2 }

\* the directories the calls start on: files as save_screenshot names them
RaceFiles ==
    { [name |-> screenshot_name(strftime(0), step.step_num, step.name), img |-> img] :
         step \in Steps, img \in DriverImages }

RaceDirs ==
    { d \in SUBSET RaceFiles :
         /\ Cardinality(d) <= MaxFiles
         /\ \A x \in d : \A y \in d : x.name = y.name => x = y }

InitRace ==
    /\ baseExists \in BOOLEAN /\ base \in RaceDirs
    /\ (~baseExists => base = {})
    /\ curExists \in BOOLEAN /\ cur \in RaceDirs
    /\ (~curExists => cur = {})
    /\ clock = 0
    /\ ret = [op |-> "none", again |-> FALSE, ok |-> FALSE, raised |-> FALSE,
              identical |-> <<>>, differences |-> <<>>]
    /\ phase = [p \in Callers |-> [pc |-> "check_base", cur_files |-> {}, copied |-> {}]]
    /\ runFailed = FALSE

\* return ok
RaceReturn(p, ok) ==
    /\ phase' = [phase EXCEPT ![p].pc = "returned"]
    /\ ret' = Ret("set_base_screenshots", ok, FALSE, <<>>, <<>>)

\* if os.path.exists(base_dir) and os.listdir(base_dir): return False
RaceCheckBase ==
    \E p \in Callers :
        /\ phase[p].pc = "check_base"
        /\ IF HasFiles(baseExists, base)
           THEN RaceReturn(p, FALSE)
           ELSE phase' = [phase EXCEPT ![p].pc = "list_cur"] /\ UNCHANGED ret
        /\ UNCHANGED << baseExists, base, curExists, cur, clock, runFailed >>

\* if not os.path.exists(cur_dir): return False
\* cur_files = os.listdir(cur_dir); if not cur_files: return False
RaceListCur ==
    \E p \in Callers :
        /\ phase[p].pc = "list_cur"
        /\ IF ~curExists \/ listdir(cur) = {}
           THEN RaceReturn(p, FALSE)
           ELSE /\ phase' = [phase EXCEPT ![p].pc = "makedirs",
                                          ![p].cur_files = listdir(cur)]
                /\ UNCHANGED ret
        /\ UNCHANGED << baseExists, base, curExists, cur, clock, runFailed >>

\* os.makedirs(base_dir, exist_ok=True)
RaceMakedirs ==
    \E p \in Callers :
        /\ phase[p].pc = "makedirs"
        /\ baseExists' = TRUE
        /\ phase' = [phase EXCEPT ![p].pc = "copy"]
        /\ UNCHANGED << base, curExists, cur, clock, ret, runFailed >>

\* one turn of the loop: shutil.copy2(src, dst) for the next name of
\* cur_files (os.listdir gives the names in no specified order)
RaceCopy ==
    \E p \in Callers :
        /\ phase[p].pc = "copy"
        /\ \E f \in cur : /\ f.name \in phase[p].cur_files \ phase[p].copied
                          /\ base' = WriteInto(base, {f})
                          /\ phase' = [phase EXCEPT ![p].copied = @ \cup {f.name}]
        /\ UNCHANGED << baseExists, curExists, cur, clock, ret, runFailed >>

\* the loop is over: return True
RaceDone ==
    \E p \in Callers :
        /\ phase[p].pc = "copy"
        /\ phase[p].copied = phase[p].cur_files
        /\ RaceReturn(p, TRUE)
        /\ UNCHANGED << baseExists, base, curExists, cur, clock, runFailed >>

NextRace ==
    \/ RaceCheckBase
    \/ RaceListCur
    \/ RaceMakedirs
    \/ RaceCopy
    \/ RaceDone

SpecRace == InitRace /\ [][NextRace]_vars

TypeOK ==
    /\ baseExists \in BOOLEAN /\ curExists \in BOOLEAN
    /\ clock \in 0..MaxClock
    /\ \A x \in cur : \A y \in cur : x.name = y.name => x = y
    /\ \A x \in base : \A y \in base : x.name = y.name => x = y
    /\ (~baseExists => base = {}) /\ (~curExists => cur = {})

(***************************************************************************)
(* Vocabulary of the properties                                            *)
(***************************************************************************)
\* the names save_screenshot gives a step over the explored wall clock
SnapshotNames(step) ==
    { screenshot_name(strftime(c), step.step_num, step.name) : c \in 0..MaxClock }

AllSteps == Steps \cup { FailedStep }

\* the files of a directory that are captures of the step
CapturesOf(d, step) == { x \in d : x.name \in SnapshotNames(step) }

\* the second at which a capture was taken
CaptureTime(x) ==
    CHOOSE c \in 0..MaxClock :
        \E step \in AllSteps :
            x.name = screenshot_name(strftime(c), step.step_num, step.name)

\* the key of a step that is built from the step label and the name only
StepKeyOf(step) == step.step_num \o << "_" >> \o step.name \o << ".png" >>

\* the key an entry of the differences list is about
KeyOfEntry(e) ==
    IF Head(e) = "Size mismatch: " THEN Tail(e)
    ELSE IF Head(e) = "Error comparing " THEN SubSeq(e, 2, Len(e) - 2)
    ELSE e

Range(q) == { q[i] : i \in 1..Len(q) }

\* the keys the returned lists name
ReportedKeys(r) == Range(r.identical) \cup { KeyOfEntry(e) : e \in Range(r.differences) }

BaseKeys == StepKeys(listdir(base))
CurKeys == StepKeys(listdir(cur))

\* the last call was compare_screenshots; base and cur are as it saw them
Compared == ret.op = "compare_screenshots"

\* the step is a call of the operation: of the steps of Next and NextIO only
\* Tick moves the clock, and every other one is a call that sets ret
Calls(op) == clock' = clock /\ ret'.op = op

IsNotComparable(r) == ~r.ok /\ r.identical = <<>> /\ r.differences = <<>>

(***************************************************************************)
(* C1: the key extract_step_info derives from a name that save_screenshot  *)
(* made is built from the step label and the human name only, so that two  *)
(* captures of one step at different times have the same key.              *)
(***************************************************************************)
C1_KeyIsTimestampIndependent ==
    /\ \A step \in AllSteps : \A x \in CapturesOf(base \cup cur, step) :
           extract_step_info(x.name) = StepKeyOf(step)
    /\ \A step \in AllSteps : \A x, y \in CapturesOf(base \cup cur, step) :
           extract_step_info(x.name) = extract_step_info(y.name)

(***************************************************************************)
(* C2: when the baseline holds one capture of each of some steps and cur   *)
(* holds one later capture of each of the same steps, compare_screenshots  *)
(* pairs every step, and reports every step whose two images differ in the *)
(* differences list.                                                       *)
(***************************************************************************)
LaterSessionOfSameSteps ==
    /\ base # {} /\ cur # {}
    /\ \A step \in AllSteps :
          /\ Cardinality(CapturesOf(base, step)) = Cardinality(CapturesOf(cur, step))
          /\ Cardinality(CapturesOf(cur, step)) <= 1
    /\ \A x \in base : \A y \in cur : CaptureTime(x) < CaptureTime(y)

C2_LaterSessionIsPairedAndChecked ==
    (Compared /\ LaterSessionOfSameSteps) =>
        /\ Len(ret.identical) + Len(ret.differences) = Cardinality(cur)
        /\ \A step \in AllSteps :
             \A x \in CapturesOf(base, step) : \A y \in CapturesOf(cur, step) :
                CompareImages(x.img, y.img) # "identical"
                    => \E e \in Range(ret.differences) :
                          KeyOfEntry(e) = extract_step_info(y.name)

(***************************************************************************)
(* C3: a file is written into base only by a step that starts with base    *)
(* absent or empty, and a non-empty base becomes empty only by             *)
(* clear_base_screenshots; so between two promotions that copy files there *)
(* is a clear_base_screenshots.                                            *)
(***************************************************************************)
C3_PromotionOnlyOntoEmptyBaseline ==
    [][ /\ (\E x \in base' : x \notin base) => base = {}
        /\ (base # {} /\ base' = {}) => ret'.op = "clear_base_screenshots"
      ]_vars

\* a promotion has copied the files of cur into base
C3_Witness ==
    /\ ret.op \in { "set_base_screenshots", "auto_set_base_if_successful" }
    /\ ret.ok /\ base # {} /\ base = cur

(***************************************************************************)
(* C4: a call of set_base_screenshots that returns False leaves the files  *)
(* of base as they were, and a call that changes base leaves every file of *)
(* cur in it: no part of a golden set is ever left in base.                *)
(***************************************************************************)
C4_NoPartialBaseline ==
    [][ Calls("set_base_screenshots") =>
          /\ ~ret'.ok => base' = base
          /\ base' # base => cur \subseteq base'
      ]_vars

(***************************************************************************)
(* C5 as stated: of two calls of set_base_screenshots in a row the second  *)
(* returns False and leaves the files of base as the first left them.      *)
(***************************************************************************)
C5_SecondPromotionRefused ==
    [][ (ret.op = "set_base_screenshots" /\ Calls("set_base_screenshots")) =>
          (~ret'.ok /\ base' = base)
      ]_vars

(***************************************************************************)
(* C5 amended: of two calls of set_base_screenshots in a row, when the     *)
(* first left at least one file in base (as it does when it returns True), *)
(* the second returns False and leaves the files of base as they were.     *)
(***************************************************************************)
C5_SecondPromotionRefusedOnceBaselineSet ==
    [][ (/\ ret.op = "set_base_screenshots" /\ base # {}
         /\ Calls("set_base_screenshots")) =>
          (~ret'.ok /\ base' = base)
      ]_vars

\* the second of two calls in a row was refused although cur had files
C5_Witness ==
    /\ ret.op = "set_base_screenshots" /\ ret.again /\ ~ret.ok
    /\ base # {} /\ cur # {}

(***************************************************************************)
(* C6: auto_set_base_if_successful called while base holds a file returns  *)
(* False and leaves the base directory, its files and their contents as    *)
(* they were, whatever cur holds.                                          *)
(***************************************************************************)
C6_AutoSetKeepsBaseline ==
    [][ (base # {} /\ Calls("auto_set_base_if_successful")) =>
          (~ret'.ok /\ base' = base /\ baseExists' = baseExists)
      ]_vars

\* auto_set_base_if_successful refused while cur held files base has not
C6_Witness ==
    /\ ret.op = "auto_set_base_if_successful" /\ ~ret.ok
    /\ base # {} /\ \E x \in cur : x \notin base

(***************************************************************************)
(* C7: when both directories hold snapshots, the result of                 *)
(* compare_screenshots names every key of base and of cur: the keys of     *)
(* one side only are reported, not dropped.                                *)
(***************************************************************************)
C7_UnmatchedKeysReported ==
    (Compared /\ BaseKeys # {} /\ CurKeys # {}) =>
        ReportedKeys(ret) = BaseKeys \cup CurKeys

(***************************************************************************)
(* C8: when both directories hold snapshots, compare_screenshots returns   *)
(* True exactly if no pair is different or in error and no key is in one   *)
(* directory only.                                                         *)
(***************************************************************************)
C8_PassIffNothingDiffersOrIsUnmatched ==
    (Compared /\ BaseKeys # {} /\ CurKeys # {}) =>
        (ret.ok <=> (ret.differences = <<>> /\ BaseKeys = CurKeys))

(***************************************************************************)
(* C9: compare_screenshots returns the not-comparable outcome exactly if   *)
(* base or cur is absent or holds no snapshot.                             *)
(***************************************************************************)
C9_NotComparableIffASideIsEmpty ==
    Compared => (IsNotComparable(ret) <=> (BaseKeys = {} \/ CurKeys = {}))

(***************************************************************************)
(* C10: in the pytest harness no run in which a test failed has its        *)
(* snapshots promoted into base by the teardown.                           *)
(***************************************************************************)
C10_FailedRunIsNotPromoted ==
    [][ (Teardown /\ base' # base) => ~runFailed ]_vars

(***************************************************************************)
(* C11: in the pytest harness, once a teardown has promoted cur into an    *)
(* empty base, base holds a snapshot of every step the session captures:   *)
(* no test method that runs after the promotion, in a session without a    *)
(* failed test, leaves in cur a step key that base lacks.                  *)
(***************************************************************************)
C11_BaselineCoversTheSession ==
    [][ (/\ phase = "test" /\ ~runFailed'
         /\ ret.op = "auto_set_base_if_successful" /\ ret.ok) =>
          \A step \in AllSteps :
              CapturesOf(cur', step) # {} => CapturesOf(base', step) # {}
      ]_vars

(***************************************************************************)
(* C12: when both directories exist, compare_screenshots returns without   *)
(* raising and its result names every key that base and cur share, also    *)
(* the keys that sort after a pair of mismatched dimensions or a pair that *)
(* cannot be decoded.                                                      *)
(***************************************************************************)
C12_BadPairDoesNotAbortTheBatch ==
    (Compared /\ baseExists /\ curExists) =>
        /\ ~ret.raised
        /\ BaseKeys \cap CurKeys \subseteq ReportedKeys(ret)

\* the first pair in sorted order was a size mismatch or undecodable, and a
\* later pair was compared and found identical
C12_Witness ==
    /\ Compared /\ ret.differences # <<>> /\ ret.identical # <<>>
    /\ Head(Head(ret.differences)) \in { "Size mismatch: ", "Error comparing " }
    /\ StrLess(KeyOfEntry(Head(ret.differences)), Head(ret.identical))

(***************************************************************************)
(* C13: a call of save_screenshot in which the driver or the file system   *)
(* fails hands the failure to its caller as a result: no call of           *)
(* save_screenshot ends by raising an exception.                           *)
(***************************************************************************)
C13_SaveFailureIsReturned ==
    ret.op = "save_screenshot" => ~ret.raised

(***************************************************************************)
(* C14: clear_screenshot_directory returns True and leaves the cur         *)
(* directory existing and empty, whether it was absent, empty or           *)
(* populated before; so a second call in a row changes nothing.            *)
(***************************************************************************)
C14_ClearLeavesAnEmptyDirectory ==
    ret.op = "clear_screenshot_directory" =>
        (ret.ok /\ curExists /\ listdir(cur) = {})

(***************************************************************************)
(* C15: while base holds a file, no operation but clear_base_screenshots   *)
(* removes, adds or rewrites a file of base or removes the base directory: *)
(* save_screenshot, clear_screenshot_directory, compare_screenshots,       *)
(* set_base_screenshots and auto_set_base_if_successful, which are also    *)
(* all that the session fixture and teardown_method call, leave a          *)
(* non-empty base as it is.                                                *)
(***************************************************************************)
C15_OnlyClearBaseTouchesBaseline ==
    [][ (base # {} /\ ~Calls("clear_base_screenshots")) =>
          (base' = base /\ baseExists' = baseExists)
      ]_vars

\* the baseline has outlived the clearing of the cur directory it came from
C15_Witness ==
    /\ ret.op = "clear_screenshot_directory" /\ ~curExists
    /\ base # {}

(***************************************************************************)
(* C16: a call of set_base_screenshots that returns True leaves in base    *)
(* exactly the files of cur, each under its name and with its content,     *)
(* and leaves cur as it was.                                               *)
(***************************************************************************)
C16_SuccessfulPromotionCopiesEveryFile ==
    [][ (Calls("set_base_screenshots") /\ ret'.ok) =>
          /\ listdir(base') = listdir(cur)
          /\ \A x \in cur : ImageAt(base', x.name) = x.img
          /\ cur' = cur /\ curExists' = curExists
      ]_vars

\* a promotion of several files has returned True
C16_Witness ==
    /\ ret.op = "set_base_screenshots" /\ ret.ok
    /\ Cardinality(cur) >= 2 /\ listdir(base) = listdir(cur)

(***************************************************************************)
(* C17: when base holds the same files as cur, each a readable image (as   *)
(* it does right after a successful set_base_screenshots),                 *)
(* compare_screenshots returns True, an empty differences list, and an     *)
(* identical list that names every key of the two directories.             *)
(***************************************************************************)
C17_CopyComparesIdentical ==
    (/\ Compared /\ cur # {} /\ base = cur
     /\ \A x \in cur : ImageOpen(x.img).ok) =>
        (ret.ok /\ ret.differences = <<>> /\ Range(ret.identical) = CurKeys)

(***************************************************************************)
(* Vocabulary of the properties about one pair of files                    *)
(***************************************************************************)
\* the files of a directory, each with its key
KeyedFiles(d) == { << extract_step_info(x.name), x >> : x \in d }

\* the pairs << file of base, file of cur, key >> that compare_screenshots
\* compares in whatever order it lists the directories: the two files have
\* the same key and no other file of their directory has it
SurePairs ==
    LET bk == KeyedFiles(base)
        ck == KeyedFiles(cur)
        Sole(S) == { z \in S : z[1] # None /\ \A w \in S : w[1] = z[1] => w = z }
        pairs == { << p, q >> : p \in Sole(bk), q \in Sole(ck) }
    IN  { << t[1][2], t[2][2], t[1][1] >> :
            t \in { u \in pairs : u[1][1] = u[2][1] } }

BothDecodable(p) == ImageOpen(p[1].img).ok /\ ImageOpen(p[2].img).ok

SameSize(p) == ImageOpen(p[1].img).size = ImageOpen(p[2].img).size

\* the pixels (numbered from 0 along the row) at which the two images of
\* same size differ, the base image taken in the mode of the cur image
DifferingPixels(p) ==
    LET a == Convert(ImageOpen(p[1].img), ImageOpen(p[2].img).mode)
        b == ImageOpen(p[2].img)
    IN  { i - 1 : i \in { j \in 1..Len(b.px) : a.px[j] # b.px[j] } }

\* the box (left, upper, right, lower) covers the pixel x of row 0
Covers(box, x) ==
    Len(box) = 4 /\ box[1] <= x /\ x < box[3] /\ box[2] <= 0 /\ 0 < box[4]

(***************************************************************************)
(* C18: for a pair of images of the same size that differ in exactly one   *)
(* pixel, the result of compare_screenshots holds an entry for the key     *)
(* that marks it different and carries, beside the key, a bounding box     *)
(* that covers the pixel; a pair without a differing pixel is in the       *)
(* identical list.                                                         *)
(***************************************************************************)
C18_OnePixelDifferenceIsBoxed ==
    (Compared /\ baseExists /\ curExists) =>
        \A p \in { q \in SurePairs : BothDecodable(q) /\ SameSize(q) } :
            LET k == p[3]
            IN  /\ DifferingPixels(p) = {} => k \in Range(ret.identical)
                /\ Cardinality(DifferingPixels(p)) = 1 =>
                      \E e \in Range(ret.differences) :
                          /\ Len(e) > Len(k) /\ SubSeq(e, 1, Len(k)) = k
                          /\ \A x \in DifferingPixels(p) :
                                 Covers(SubSeq(e, Len(k) + 1, Len(e)), x)

(***************************************************************************)
(* C19: for a pair of images of different dimensions the result of         *)
(* compare_screenshots holds the entry "Size mismatch: <key>" and no other *)
(* entry for the key (it is not in the identical list, not reported as     *)
(* different and not reported as an error), the call does not raise, and   *)
(* an entry "Size mismatch: <key>" is there only for a key whose files     *)
(* have different dimensions.                                              *)
(***************************************************************************)
C19_SizeMismatchIsItsOwnVerdict ==
    (Compared /\ baseExists /\ curExists) =>
        /\ ~ret.raised
        /\ \A p \in { q \in SurePairs : BothDecodable(q) /\ ~SameSize(q) } :
              /\ << "Size mismatch: " >> \o p[3] \in Range(ret.differences)
              /\ p[3] \notin Range(ret.identical)
              /\ \A e \in Range(ret.differences) :
                     KeyOfEntry(e) = p[3] => Head(e) = "Size mismatch: "
        /\ \A e \in Range(ret.differences) :
              Head(e) = "Size mismatch: " =>
                  \E x \in KeyedFiles(base), y \in KeyedFiles(cur) :
                      /\ x[1] = Tail(e) /\ y[1] = Tail(e)
                      /\ BothDecodable(<< x[2], y[2] >>)
                      /\ ~SameSize(<< x[2], y[2] >>)

\* one result holds a size mismatch beside a pair reported as different
C19_Witness ==
    /\ Compared /\ Len(ret.differences) = 2
    /\ Head(ret.differences[1]) = "Size mismatch: "
    /\ KeyOfEntry(ret.differences[2]) = ret.differences[2]

C21_SessionStartsWithEmptyCur ==
    [][ (phase = "idle" /\ phase' = "session") => listdir(cur') = {} ]_vars

(***************************************************************************)
(* C22: when base and cur share a key, the identical list and the          *)
(* differences list of compare_screenshots together have one entry for     *)
(* each shared key, no key is in both, and every entry of the differences  *)
(* list is itself a shared key (so that the entries of each verdict can be *)
(* counted and looked up by key).                                          *)
(***************************************************************************)
C22_EveryEntryIsAMatchedKey ==
    (Compared /\ baseExists /\ curExists /\ BaseKeys \cap CurKeys # {}) =>
        /\ Len(ret.identical) + Len(ret.differences)
               = Cardinality(BaseKeys \cap CurKeys)
        /\ Range(ret.identical) \cap Range(ret.differences) = {}
        /\ \A e \in Range(ret.differences) : e \in BaseKeys \cap CurKeys

\* the file of the key with the latest capture time: names begin with the
\* time stamp, so it is the file whose name sorts last
LatestOf(d, k) ==
    CHOOSE x \in d :
        /\ extract_step_info(x.name) = k
        /\ \A y \in d : extract_step_info(y.name) = k
                            => (y = x \/ StrLess(y.name, x.name))

(***************************************************************************)
(* C23: for a key that several files of a directory share,                 *)
(* compare_screenshots pairs the most recently modified of them (file      *)
(* times are capture times: copy2 keeps them), so the verdict it reports   *)
(* for a shared key is the verdict of the latest base file of the key      *)
(* against the latest cur file of the key.                                 *)
(***************************************************************************)
C23_DuplicateKeyKeepsLatestFile ==
    (Compared /\ baseExists /\ curExists) =>
        \A k \in BaseKeys \cap CurKeys :
            LET verdict == CompareImages(LatestOf(base, k).img,
                                         LatestOf(cur, k).img)
            IN  IF verdict = "identical"
                THEN k \in Range(ret.identical)
                ELSE DifferenceEntry(verdict, k) \in Range(ret.differences)

\* the keys of the entries of a list are in strictly ascending order
Ascending(q) ==
    \A i \in 1..Len(q) : \A j \in 1..Len(q) :
        i < j => StrLess(KeyOfEntry(q[i]), KeyOfEntry(q[j]))

(***************************************************************************)
(* C24: the identical list and the differences list of                     *)
(* compare_screenshots are each in ascending order of key, and a second    *)
(* comparison of the same directory contents returns the same two lists.   *)
(***************************************************************************)
C24_SortedAndRepeatable ==
    [][ Calls("compare_screenshots") =>
          /\ Ascending(ret'.identical) /\ Ascending(ret'.differences)
          /\ ret.op = "compare_screenshots" =>
                (ret'.identical = ret.identical
                 /\ ret'.differences = ret.differences)
      ]_vars

\* the name has the fields of the grammar of save_screenshot,
\* <%Y%m%d>_<%H%M%S>_<step_num>_<name>.png: four parts between "_"
HasSnapshotFields(filename) ==
    EndsWith(filename, ".png") /\ Len(Split(filename, "_")) >= 4

(***************************************************************************)
(* C25: extract_step_info gives None for every file name that does not    *)
(* end in .png or lacks one of the fields time stamp, step label and name, *)
(* and compare_screenshots ignores such files: every key its result names  *)
(* is the key of a file of base and of a file of cur that have the fields. *)
(***************************************************************************)
C25_NonSnapshotsAreIgnored ==
    Compared =>
        /\ \A x \in base \cup cur :
              ~HasSnapshotFields(x.name) => extract_step_info(x.name) = None
        /\ \A k \in ReportedKeys(ret) :
              /\ \E x \in base : HasSnapshotFields(x.name)
                                  /\ extract_step_info(x.name) = k
              /\ \E y \in cur : HasSnapshotFields(y.name)
                                 /\ extract_step_info(y.name) = k

(***************************************************************************)
(* C26: promotion and comparison agree on when the baseline is empty: when *)
(* auto_set_base_if_successful refuses although cur holds a file, so       *)
(* because of what base holds, some file of base gives a key to            *)
(* compare_screenshots.                                                    *)
(***************************************************************************)
C26_RefusedOnlyIfBaselineHasAKey ==
    (/\ ret.op = "auto_set_base_if_successful" /\ ~ret.ok
     /\ curExists /\ listdir(cur) # {}) =>
        BaseKeys # {}

\* what the copy loop of a promotion can meet in the current state
CopyOutcomes ==
    { AllCopied(cur) }
    \cup (IF ReachesCopy(baseExists, base, curExists, cur)
          THEN CopyFailuresOf(cur) ELSE {})

C28_OtherSubjectLeavesDirectoriesAlone ==
    [][ (phase = "trill" /\ phase' = "trill") =>
            UNCHANGED << baseExists, base, curExists, cur >> ]_vars

(***************************************************************************)
(* C29: of two interleaved calls of set_base_screenshots on one subject,   *)
(* at most one copies files into the base directory: no call copies into a *)
(* base directory the other call has started to populate.                  *)
(***************************************************************************)
C29_AtMostOneCallCopies ==
    ~(\A p \in Callers : phase[p].copied # {})

====
